---------------------------- MODULE Spec2Model ----------------------------
(***************************************************************************)
(* Call-graph engine of architecture-viz: CallGraph construction and merge  *)
(* (analyzer/callgraph.py), the bounded breadth-first queries over it, and  *)
(* the entry points that aggregate per-unit results and cache call graphs   *)
(* (api.py, cli.py, web/app.py).                                            *)
(***************************************************************************)
EXTENDS Integers, Sequences, FiniteSets, TLC

VARIABLES
    global_callgraph,   \* build_module_callgraph: the graph being merged into
    fragments,          \* the per-unit graphs extract_call_relations returned so far
    query,              \* the last query and what it returned
    file_cache,         \* web/app.py: path -> text
    analysis_cache,     \* web/app.py: cache key -> analysis, in insertion order
    callgraph_cache,    \* web/app.py: cache key -> CallGraph (a reference into
                        \* graphs), in insertion order
    graphs,             \* the CallGraph objects the /facts runs built, by identity
    run,                \* the last call of an entry point and its outcome
    runs,               \* entry point calls so far
    latest              \* per root, the call graph of its most recent /facts run

engineVars == <<global_callgraph, fragments>>

webVars == <<file_cache, analysis_cache, callgraph_cache, graphs, runs, latest>>

vars == <<global_callgraph, fragments, query, file_cache, analysis_cache,
          callgraph_cache, graphs, run, runs, latest>>

-----------------------------------------------------------------------------
(* Bounds of the model *)

MaxUnits == 2       \* units merged by one build_module_callgraph run
MaxSites == 2       \* call sites in one unit
MaxDepth == 3       \* largest max_depth a query is given
MaxWideUnits == 1   \* wide units merged by one run
CapExtra == 2       \* a wide unit holds up to NodeCap + CapExtra functions
MaxRuns == 2        \* calls of the entry points
MaxStmts == 2       \* top-level statements of a parsed text
MaxEdges == 3       \* edges a graph holds when add_edge is called on it
MaxGraphUnits == 1  \* units merged into a graph that is also built by hand
MaxOps == 3         \* calls of add_node, add_edge and merges on such a graph

(* Program constant: web/app.py lines 221 and 286, "max_depth: int = 5" *)
DefaultMaxDepth == 5

(* Program constant: callgraph.py line 45, "len(visited) < 100" *)
NodeCap == 100

Names == {"a", "b", "c"}
NameOrder == <<"a", "b", "c">>
NoFunc == "None"            \* current_function = None: a call at module level
Depths == (-1)..MaxDepth

-----------------------------------------------------------------------------
(* CallNode and CallGraph *)

EmptyNodes == [n \in {} |-> 0]

CallNode(name, module) ==
    [name |-> name, module |-> module, calls |-> <<>>, called_by |-> <<>>]

EmptyGraph == [nodes |-> EmptyNodes, order |-> <<>>, edges |-> <<>>]

add_node(g, node) ==
    [g EXCEPT
        !.nodes = [n \in (DOMAIN g.nodes) \cup {node.name} |->
                      IF n = node.name THEN node ELSE g.nodes[n]],
        !.order = IF node.name \in DOMAIN g.nodes THEN @ ELSE Append(@, node.name)]

\* add_edge without the test of line 31.
add_edge_unguarded(g, caller, callee) ==
    LET withCall == [n \in DOMAIN g.nodes |->
                        IF n = caller
                        THEN [g.nodes[n] EXCEPT !.calls = Append(@, callee)]
                        ELSE g.nodes[n]]
        withBoth == [n \in DOMAIN g.nodes |->
                        IF n = callee
                        THEN [withCall[n] EXCEPT !.called_by = Append(@, caller)]
                        ELSE withCall[n]]
    IN [g EXCEPT !.nodes = withBoth, !.edges = Append(@, <<caller, callee>>)]

add_edge(g, caller, callee) ==
    IF caller \in DOMAIN g.nodes /\ callee \in DOMAIN g.nodes
    THEN LET withCall == [g.nodes EXCEPT ![caller].calls = Append(@, callee)]
             withBoth == [withCall EXCEPT ![callee].called_by = Append(@, caller)]
         IN [g EXCEPT !.nodes = withBoth,
                      !.edges = Append(@, <<caller, callee>>)]
    ELSE g

-----------------------------------------------------------------------------
(* get_reachable_from *)

EmptyVisited == [n \in {} |-> 0]

\* The loop condition with "<=" for "<": one node too many.
CapReachedLate(visited) == ~(Cardinality(DOMAIN visited) <= NodeCap)

CapReached(visited) == ~(Cardinality(DOMAIN visited) < NodeCap)

\* The depth test with ">=" for ">", and with the comparison turned round.
DepthExceededOffByOne(depth, max_depth) == depth >= max_depth

DepthExceededInverted(depth, max_depth) == depth < max_depth

DepthExceeded(depth, max_depth) == depth > max_depth

EnqueueCallees(calls, visited, depth) ==
    LET fresh == SelectSeq(calls, LAMBDA callee : callee \notin DOMAIN visited)
    IN [i \in 1..Len(fresh) |-> [node |-> fresh[i], depth |-> depth + 1]]

\* "while queue and len(visited) < 100", negated.
ReachLoopDone(s) == s.queue = <<>> \/ CapReached(s.visited)

\* An iteration that leaves a node it has already visited at the head of
\* the queue.
ReachStepKeepingHead(g, s, max_depth) ==
    LET current == Head(s.queue).node
        depth == Head(s.queue).depth
        rest == Tail(s.queue)
    IN IF current \in DOMAIN s.visited
       THEN s
       ELSE IF DepthExceeded(depth, max_depth)
       THEN [s EXCEPT !.queue = rest]
       ELSE LET seen == [n \in (DOMAIN s.visited) \cup {current} |->
                            IF n = current THEN depth ELSE s.visited[n]]
                more == IF current \in DOMAIN g.nodes
                        THEN EnqueueCallees(g.nodes[current].calls, seen, depth)
                        ELSE <<>>
            IN [queue |-> rest \o more, visited |-> seen]

\* One iteration of the while loop (lines 46-60) on its locals.
ReachStep(g, s, max_depth) ==
    LET current == Head(s.queue).node
        depth == Head(s.queue).depth
        rest == Tail(s.queue)
    IN IF current \in DOMAIN s.visited
       THEN [s EXCEPT !.queue = rest]
       ELSE IF DepthExceeded(depth, max_depth)
       THEN [s EXCEPT !.queue = rest]
       ELSE LET seen == [n \in (DOMAIN s.visited) \cup {current} |->
                            IF n = current THEN depth ELSE s.visited[n]]
                more == IF current \in DOMAIN g.nodes
                        THEN EnqueueCallees(g.nodes[current].calls, seen, depth)
                        ELSE <<>>
            IN [queue |-> rest \o more, visited |-> seen]

\* The loop pops one entry per iteration, and pushes entries only when it
\* visits a node, which it does once per node: one entry per call of that
\* node. This many iterations therefore empty the queue.
ReachLoopBound(g) ==
    LET lens == {Len(g.nodes[n].calls) : n \in DOMAIN g.nodes} \cup {0}
        most == CHOOSE m \in lens : \A l \in lens : l <= m
    IN 1 + Cardinality(DOMAIN g.nodes) * most

\* Up to k iterations of the loop from locals s, run as the first half of
\* them and then the rest.
RECURSIVE ReachIterate(_, _, _, _)
ReachIterate(g, s, max_depth, k) ==
    IF ReachLoopDone(s) THEN s
    ELSE IF k <= 1 THEN ReachStep(g, s, max_depth)
    ELSE ReachIterate(g, ReachIterate(g, s, max_depth, k \div 2),
                      max_depth, k - (k \div 2))

ReachLoop(g, queue, visited, max_depth) ==
    ReachIterate(g, [queue |-> queue, visited |-> visited], max_depth,
                 ReachLoopBound(g)).visited

\* get_reachable_from without the membership test of lines 39-40.
get_reachable_from_unguarded(g, start_node, max_depth) ==
    ReachLoop(g, <<[node |-> start_node, depth |-> 0]>>, EmptyVisited, max_depth)

get_reachable_from(g, start_node, max_depth) ==
    IF start_node \notin DOMAIN g.nodes
    THEN EmptyVisited
    ELSE ReachLoop(g, <<[node |-> start_node, depth |-> 0]>>, EmptyVisited, max_depth)

-----------------------------------------------------------------------------
(* get_paths_between *)

InSeq(x, s) == \E i \in 1..Len(s) : s[i] = x

PathTooLong(path, max_depth) == Len(path) > max_depth

\* The expansion of a partial path without the "callee not in path" test.
ExtendPathRevisiting(calls, path) ==
    [i \in 1..Len(calls) |-> [node |-> calls[i], path |-> Append(path, calls[i])]]

ExtendPath(calls, path) ==
    LET fresh == SelectSeq(calls, LAMBDA callee : ~InSeq(callee, path))
    IN [i \in 1..Len(fresh) |-> [node |-> fresh[i], path |-> Append(path, fresh[i])]]

\* One iteration of the while loop (lines 72-85) on its locals.
PathStep(g, s, end, max_depth) ==
    LET current == Head(s.queue).node
        path == Head(s.queue).path
        rest == Tail(s.queue)
    IN IF PathTooLong(path, max_depth)
       THEN [s EXCEPT !.queue = rest]
       ELSE IF current = end
       THEN [queue |-> rest, paths |-> Append(s.paths, path)]
       ELSE LET more == IF current \in DOMAIN g.nodes
                        THEN ExtendPath(g.nodes[current].calls, path)
                        ELSE <<>>
            IN [s EXCEPT !.queue = rest \o more]

RECURSIVE PathLoop(_, _, _, _, _)
PathLoop(g, queue, paths, end, max_depth) ==
    IF queue = <<>>
    THEN paths
    ELSE LET s == PathStep(g, [queue |-> queue, paths |-> paths], end, max_depth)
         IN PathLoop(g, s.queue, s.paths, end, max_depth)

get_paths_between(g, start, end, max_depth) ==
    IF start \notin DOMAIN g.nodes \/ end \notin DOMAIN g.nodes
    THEN <<>>
    ELSE PathLoop(g, <<[node |-> start, path |-> <<start>>]>>, <<>>, end, max_depth)

-----------------------------------------------------------------------------
(* extract_call_relations and build_module_callgraph *)

\* A unit of source text, reduced to what the two passes of
\* extract_call_relations read: the definitions found by the first pass, in
\* walk order, and the call sites found by the second, each with the function
\* it was attributed to (NoFunc when none) and its bare callee name.
DeclsOf(S) == SelectSeq(NameOrder, LAMBDA n : n \in S)

SitesOf(S) == [caller : S \cup {NoFunc}, callee : Names]

SiteSeqs(S) == UNION {[1..l -> SitesOf(S)] : l \in 0..MaxSites}

\* build_module_callgraph is given the units parse_python_module accepted.
Units == UNION {{[ok |-> TRUE, decls |-> DeclsOf(S), sites |-> s] : s \in SiteSeqs(S)} :
                    S \in (SUBSET Names) \ {{}}}

\* Each for loop below runs over a list in order. It is written with its
\* locals s = [g, i], the graph so far and the index of the next element, as
\* up to k iterations: the first half of them, then the rest.

\* First pass (lines 98-126): a node per definition.
FirstPassStep(s, decls, module) ==
    [g |-> add_node(s.g, CallNode(decls[s.i], module)), i |-> s.i + 1]

RECURSIVE FirstPassIterate(_, _, _, _)
FirstPassIterate(s, decls, module, k) ==
    IF s.i > Len(decls) THEN s
    ELSE IF k <= 1 THEN FirstPassStep(s, decls, module)
    ELSE FirstPassIterate(FirstPassIterate(s, decls, module, k \div 2),
                          decls, module, k - (k \div 2))

FirstPass(g, decls, module) ==
    FirstPassIterate([g |-> g, i |-> 1], decls, module, Len(decls)).g

\* Lines 149-150: the edge of one call site.
AttributeSite(g, site) ==
    IF site.caller # NoFunc /\ site.callee \in DOMAIN g.nodes
    THEN add_edge(g, site.caller, site.callee)
    ELSE g

\* Second pass (lines 129-150): an edge per attributed call site.
SecondPassStep(s, sites) ==
    [g |-> AttributeSite(s.g, sites[s.i]), i |-> s.i + 1]

RECURSIVE SecondPassIterate(_, _, _)
SecondPassIterate(s, sites, k) ==
    IF s.i > Len(sites) THEN s
    ELSE IF k <= 1 THEN SecondPassStep(s, sites)
    ELSE SecondPassIterate(SecondPassIterate(s, sites, k \div 2),
                           sites, k - (k \div 2))

SecondPass(g, sites) ==
    SecondPassIterate([g |-> g, i |-> 1], sites, Len(sites)).g

\* ast.parse raises on malformed text, and the except clause of lines 152-154
\* leaves the call graph empty.
extract_call_relations(module, unit) ==
    IF unit.ok
    THEN SecondPass(FirstPass(EmptyGraph, unit.decls, module), unit.sites)
    ELSE EmptyGraph

\* Lines 168-169: the fragment's nodes, as they are, into the global graph.
MergeNodesStep(s, frag, order) ==
    [g |-> add_node(s.g, frag.nodes[order[s.i]]), i |-> s.i + 1]

RECURSIVE MergeNodesIterate(_, _, _, _)
MergeNodesIterate(s, frag, order, k) ==
    IF s.i > Len(order) THEN s
    ELSE IF k <= 1 THEN MergeNodesStep(s, frag, order)
    ELSE MergeNodesIterate(MergeNodesIterate(s, frag, order, k \div 2),
                           frag, order, k - (k \div 2))

MergeNodes(g, frag, order) ==
    MergeNodesIterate([g |-> g, i |-> 1], frag, order, Len(order)).g

\* The step of the edge merge as it would be if it skipped an edge the graph
\* already holds.
MergeEdgesStepDedup(s, edges) ==
    [g |-> IF \E j \in 1..Len(s.g.edges) : s.g.edges[j] = edges[s.i]
           THEN s.g
           ELSE add_edge(s.g, edges[s.i][1], edges[s.i][2]),
     i |-> s.i + 1]

\* Lines 171-172: the fragment's edges, added again through add_edge.
MergeEdgesStep(s, edges) ==
    [g |-> add_edge(s.g, edges[s.i][1], edges[s.i][2]), i |-> s.i + 1]

RECURSIVE MergeEdgesIterate(_, _, _)
MergeEdgesIterate(s, edges, k) ==
    IF s.i > Len(edges) THEN s
    ELSE IF k <= 1 THEN MergeEdgesStep(s, edges)
    ELSE MergeEdgesIterate(MergeEdgesIterate(s, edges, k \div 2),
                           edges, k - (k \div 2))

MergeEdges(g, edges) ==
    MergeEdgesIterate([g |-> g, i |-> 1], edges, Len(edges)).g

\* One iteration of the loop of build_module_callgraph (lines 163-172).
MergeFragment(g, frag) ==
    MergeEdges(MergeNodes(g, frag, frag.order), frag.edges)

-----------------------------------------------------------------------------
(* The engine as a state machine *)

NoQuery == [op |-> "none"]

NoRun == [entry |-> "none"]

Roots == {"/r", "/r2"}

NotAnalysed == [analysed |-> FALSE]

EmptyFileCache == [p \in {} |-> 0]

Idle == query = NoQuery /\ run = NoRun

Init ==
    /\ global_callgraph = EmptyGraph
    /\ fragments = <<>>
    /\ query = NoQuery
    /\ file_cache = EmptyFileCache
    /\ analysis_cache = <<>>
    /\ callgraph_cache = <<>>
    /\ graphs = <<>>
    /\ run = NoRun
    /\ runs = 0
    /\ latest = [r \in Roots |-> NotAnalysed]

MergeUnit ==
    /\ Idle
    /\ Len(fragments) < MaxUnits
    /\ \E unit \in Units :
          LET frag == extract_call_relations(Len(fragments) + 1, unit)
          IN /\ global_callgraph' = MergeFragment(global_callgraph, frag)
             /\ fragments' = Append(fragments, frag)
    /\ UNCHANGED <<query, run, webVars>>

Reachable ==
    /\ Idle
    /\ \E start \in Names, d \in Depths :
          query' = [op |-> "reachable", start |-> start, max_depth |-> d,
                    result |-> get_reachable_from(global_callgraph, start, d)]
    /\ UNCHANGED <<engineVars, run, webVars>>

PathsBetween ==
    /\ Idle
    /\ \E start \in Names, end \in Names, d \in Depths :
          query' = [op |-> "paths", start |-> start, end |-> end, max_depth |-> d,
                    result |-> get_paths_between(global_callgraph, start, end, d)]
    /\ UNCHANGED <<engineVars, run, webVars>>

\* The call returns to its caller.
Return ==
    /\ ~Idle
    /\ query' = NoQuery
    /\ run' = NoRun
    /\ UNCHANGED <<engineVars, webVars>>

Next == MergeUnit \/ Reachable \/ PathsBetween \/ Return

Spec == Init /\ [][Next]_vars

-----------------------------------------------------------------------------
(* The graph under direct calls of add_node and add_edge, and merges *)

\* The calls made on the graph so far are counted in runs.
AddNode ==
    /\ Idle
    /\ runs < MaxOps
    /\ \E name \in Names :
          /\ global_callgraph' = add_node(global_callgraph, CallNode(name, 0))
          /\ query' = [op |-> "add_node", name |-> name]
    /\ runs' = runs + 1
    /\ UNCHANGED <<fragments, run, file_cache, analysis_cache, callgraph_cache,
                   graphs, latest>>

AddEdge ==
    /\ Idle
    /\ runs < MaxOps
    /\ Len(global_callgraph.edges) < MaxEdges
    /\ \E caller \in Names, callee \in Names :
          /\ global_callgraph' = add_edge(global_callgraph, caller, callee)
          /\ query' = [op |-> "add_edge", caller |-> caller, callee |-> callee]
    /\ runs' = runs + 1
    /\ UNCHANGED <<fragments, run, file_cache, analysis_cache, callgraph_cache,
                   graphs, latest>>

\* The units with at most one call site.
SmallUnits == {unit \in Units : Len(unit.sites) <= 1}

\* One iteration of the loop of build_module_callgraph on such a graph.
MergeIntoGraph ==
    /\ Idle
    /\ runs < MaxOps
    /\ Len(fragments) < MaxGraphUnits
    /\ \E unit \in SmallUnits :
          LET frag == extract_call_relations(Len(fragments) + 1, unit)
          IN /\ global_callgraph' = MergeFragment(global_callgraph, frag)
             /\ fragments' = Append(fragments, frag)
    /\ runs' = runs + 1
    /\ UNCHANGED <<query, run, file_cache, analysis_cache, callgraph_cache,
                   graphs, latest>>

NextGraph == AddNode \/ AddEdge \/ MergeIntoGraph \/ Return

SpecGraph == Init /\ [][NextGraph]_vars

-----------------------------------------------------------------------------
(* The same engine on units wide enough to reach the cap of 100 nodes *)

WideName(i) == "f" \o ToString(i)

WideSizes == (NodeCap - 1)..(NodeCap + CapExtra)

\* f1 calls every other function of the unit.
StarUnit(n) ==
    [ok |-> TRUE,
     decls |-> [i \in 1..n |-> WideName(i)],
     sites |-> [i \in 1..(n - 1) |->
                  [caller |-> WideName(1), callee |-> WideName(i + 1)]]]

\* Each function calls the next one.
ChainUnit(n) ==
    [ok |-> TRUE,
     decls |-> [i \in 1..n |-> WideName(i)],
     sites |-> [i \in 1..(n - 1) |->
                  [caller |-> WideName(i), callee |-> WideName(i + 1)]]]

\* Each function calls the next one and the last calls the first.
RingUnit(n) ==
    [ok |-> TRUE,
     decls |-> [i \in 1..n |-> WideName(i)],
     sites |-> [i \in 1..n |->
                  [caller |-> WideName(i), callee |-> WideName((i % n) + 1)]]]

WideUnits == {StarUnit(n) : n \in WideSizes} \cup {ChainUnit(n) : n \in WideSizes}
                \cup {RingUnit(n) : n \in WideSizes}

WideStarts == {WideName(1), WideName(2), WideName(NodeCap), "a"}

WideDepths == {0, 1, NodeCap - 2, NodeCap - 1, NodeCap, NodeCap + 1}

MergeWideUnit ==
    /\ Idle
    /\ Len(fragments) < MaxWideUnits
    /\ \E unit \in WideUnits :
          LET frag == extract_call_relations(Len(fragments) + 1, unit)
          IN /\ global_callgraph' = MergeFragment(global_callgraph, frag)
             /\ fragments' = Append(fragments, frag)
    /\ UNCHANGED <<query, run, webVars>>

ReachableWide ==
    /\ Idle
    /\ \E start \in WideStarts, d \in WideDepths :
          query' = [op |-> "reachable", start |-> start, max_depth |-> d,
                    result |-> get_reachable_from(global_callgraph, start, d)]
    /\ UNCHANGED <<engineVars, run, webVars>>

NextCap == MergeWideUnit \/ ReachableWide \/ Return

SpecCap == Init /\ [][NextCap]_vars

-----------------------------------------------------------------------------
(* The two queries, one loop iteration at a time *)

Running == query.op \in {"reachable_loop", "paths_loop"}

\* Lines 39-43: the call of get_reachable_from up to its loop.
StartReachable ==
    /\ Idle
    /\ \E start \in Names, d \in Depths :
          query' =
             IF start \notin DOMAIN global_callgraph.nodes
             THEN [op |-> "reachable", start |-> start, max_depth |-> d,
                   result |-> EmptyVisited]
             ELSE [op |-> "reachable_loop", start |-> start, max_depth |-> d,
                   locals |-> [queue |-> <<[node |-> start, depth |-> 0]>>,
                               visited |-> EmptyVisited]]
    /\ UNCHANGED <<engineVars, run, webVars>>

\* Lines 45-60: one iteration.
ReachIteration ==
    /\ query.op = "reachable_loop"
    /\ ~ReachLoopDone(query.locals)
    /\ query' = [query EXCEPT
                    !.locals = ReachStep(global_callgraph, @, query.max_depth)]
    /\ UNCHANGED <<engineVars, run, webVars>>

\* Line 62: the loop has ended, return visited.
ReachExit ==
    /\ query.op = "reachable_loop"
    /\ ReachLoopDone(query.locals)
    /\ query' = [op |-> "reachable", start |-> query.start,
                 max_depth |-> query.max_depth,
                 result |-> query.locals.visited]
    /\ UNCHANGED <<engineVars, run, webVars>>

\* Lines 66-70: the call of get_paths_between up to its loop.
StartPaths ==
    /\ Idle
    /\ \E start \in Names, end \in Names, d \in Depths :
          query' =
             IF \/ start \notin DOMAIN global_callgraph.nodes
                \/ end \notin DOMAIN global_callgraph.nodes
             THEN [op |-> "paths", start |-> start, end |-> end,
                   max_depth |-> d, result |-> <<>>]
             ELSE [op |-> "paths_loop", start |-> start, end |-> end,
                   max_depth |-> d,
                   locals |-> [queue |-> <<[node |-> start, path |-> <<start>>]>>,
                               paths |-> <<>>]]
    /\ UNCHANGED <<engineVars, run, webVars>>

\* Lines 72-85: one iteration.
PathIteration ==
    /\ query.op = "paths_loop"
    /\ query.locals.queue # <<>>
    /\ query' = [query EXCEPT
                    !.locals = PathStep(global_callgraph, @, query.end,
                                        query.max_depth)]
    /\ UNCHANGED <<engineVars, run, webVars>>

\* Line 87: the loop has ended, return paths.
PathExit ==
    /\ query.op = "paths_loop"
    /\ query.locals.queue = <<>>
    /\ query' = [op |-> "paths", start |-> query.start, end |-> query.end,
                 max_depth |-> query.max_depth, result |-> query.locals.paths]
    /\ UNCHANGED <<engineVars, run, webVars>>

\* A call returns to its caller once its loop has ended.
ReturnResult == ~Running /\ Return

\* A query that has been called runs on: its next iteration, or its exit.
LoopStep == ReachIteration \/ ReachExit \/ PathIteration \/ PathExit

NextLoop ==
    \/ AddNode
    \/ AddEdge
    \/ MergeIntoGraph
    \/ StartReachable
    \/ StartPaths
    \/ LoopStep
    \/ ReturnResult

SpecLoop == Init /\ [][NextLoop]_vars /\ WF_vars(LoopStep)

-----------------------------------------------------------------------------
(* The entry points: api.py, cli.py, web/app.py *)

\* A directory holds some of these files, listed in this order.
FileNames == <<"x.py", "y.py">>

\* "def a(): b()" with "def b(): pass"; "def a(): pass"; text that does not parse.
GoodTexts ==
    {[ok |-> TRUE, decls |-> <<"a", "b">>,
      sites |-> <<[caller |-> "a", callee |-> "b"]>>],
     [ok |-> TRUE, decls |-> <<"a">>, sites |-> <<>>]}

BadText == [ok |-> FALSE, decls |-> <<>>, sites |-> <<>>]

Texts == GoodTexts \cup {BadText}

Absent == [absent |-> TRUE]

NoModule == "None"

NoDir == "/none"

RootInputs == Roots \cup {NoDir}

isdir(path) == path \in Roots

\* What a directory holds when an entry point is called: [path, text] per file.
DiskOf(root, content) ==
    LET present == SelectSeq([i \in 1..Len(FileNames) |-> i],
                             LAMBDA i : content[i] # Absent)
    IN [k \in 1..Len(present) |->
           [path |-> root \o "/" \o FileNames[present[k]],
            text |-> content[present[k]]]]

Disks(root) ==
    IF isdir(root)
    THEN {DiskOf(root, content) :
             content \in [1..Len(FileNames) -> Texts \cup {Absent}]}
    ELSE {<<>>}

startswith(str, prefix) ==
    Len(prefix) <= Len(str) /\ SubSeq(str, 1, Len(prefix)) = prefix

endswith(str, suffix) ==
    Len(suffix) <= Len(str)
       /\ SubSeq(str, Len(str) - Len(suffix) + 1, Len(str)) = suffix

detect_language(filename) ==
    IF endswith(filename, ".py") THEN "python" ELSE "unknown"

\* The path relative to root, without its extension (the names here hold no
\* "__init__" part, separator or hyphen to rewrite).
to_module_name(root, file_path) ==
    SubSeq(file_path, Len(root) + 2, Len(file_path) - Len(".py"))

scan_repository(root, disk) ==
    [i \in 1..Len(disk) |->
        LET language == detect_language(disk[i].path)
        IN [path |-> disk[i].path,
            language |-> language,
            module |-> IF language = "python"
                       THEN to_module_name(root, disk[i].path)
                       ELSE NoModule]]

\* open(f.path).read()
ReadFile(disk, path) ==
    disk[CHOOSE i \in 1..Len(disk) : disk[i].path = path].text

\* ast.parse(text) at ast_parse.py line 50 raises SyntaxError.
ParseRaises(text) == ~text.ok

\* What the entry points read of the facts of a unit: its name and its path
\* (the lists of the facts are ModuleFacts below).
parse_python_module(module_name, path, text) ==
    [module |-> module_name, path |-> path]

\* api.py lines 38-48: the loop of analyze, which skips a unit that raises.
RECURSIVE analyze_modules(_, _)
analyze_modules(files, disk) ==
    IF files = <<>> THEN <<>>
    ELSE LET f == Head(files)
             rest == analyze_modules(Tail(files), disk)
         IN IF f.language = "python" /\ f.module # NoModule
            THEN IF ParseRaises(ReadFile(disk, f.path))
                 THEN rest
                 ELSE <<parse_python_module(f.module, f.path,
                                            ReadFile(disk, f.path))>> \o rest
            ELSE rest

\* web/app.py lines 48-57: the loop of get_facts, which skips a unit that raises.
RECURSIVE get_facts_modules(_, _)
get_facts_modules(files, disk) ==
    IF files = <<>> THEN <<>>
    ELSE LET f == Head(files)
             rest == get_facts_modules(Tail(files), disk)
         IN IF f.language = "python" /\ f.module # NoModule
            THEN IF ParseRaises(ReadFile(disk, f.path))
                 THEN rest
                 ELSE <<parse_python_module(f.module, f.path,
                                            ReadFile(disk, f.path))>> \o rest
            ELSE rest

\* cli.py lines 20-26: the loop of cmd_analyze, with no try: an exception of
\* parse_python_module leaves the loop and the command.
RECURSIVE cmd_analyze_modules(_, _)
cmd_analyze_modules(files, disk) ==
    IF files = <<>> THEN [raised |-> FALSE, modules |-> <<>>]
    ELSE LET f == Head(files)
         IN IF f.language = "python" /\ f.module # NoModule
            THEN IF ParseRaises(ReadFile(disk, f.path))
                 THEN [raised |-> TRUE, modules |-> <<>>]
                 ELSE LET rest == cmd_analyze_modules(Tail(files), disk)
                      IN IF rest.raised THEN rest
                         ELSE [raised |-> FALSE,
                               modules |->
                                  <<parse_python_module(f.module, f.path,
                                                        ReadFile(disk, f.path))>>
                                     \o rest.modules]
            ELSE cmd_analyze_modules(Tail(files), disk)

ModuleNames(modules) == [i \in 1..Len(modules) |-> modules[i].module]

\* callgraph.py lines 159-174.
RECURSIVE BuildLoop(_, _, _)
BuildLoop(g, modules, file_contents) ==
    IF modules = <<>> THEN g
    ELSE LET module == Head(modules)
         IN BuildLoop(IF module.path \in DOMAIN file_contents
                      THEN MergeFragment(g,
                              extract_call_relations(module.module,
                                                     file_contents[module.path]))
                      ELSE g,
                      Tail(modules), file_contents)

build_module_callgraph(modules, file_contents) ==
    BuildLoop(EmptyGraph, modules, file_contents)

\* A dict, as the sequence of its [key, value] items in insertion order.
DictHas(dict, key) == \E i \in 1..Len(dict) : dict[i].key = key

DictGet(dict, key) ==
    dict[CHOOSE i \in 1..Len(dict) : dict[i].key = key].value

DictSet(dict, key, value) ==
    IF DictHas(dict, key)
    THEN [i \in 1..Len(dict) |->
             IF dict[i].key = key THEN [key |-> key, value |-> value] ELSE dict[i]]
    ELSE Append(dict, [key |-> key, value |-> value])

\* The run that would build into the CallGraph already cached under its key.
BuildTargetCached(cache, objects, key) ==
    IF DictHas(cache, key) THEN DictGet(cache, key) ELSE Len(objects) + 1

\* callgraph.py line 161, "global_callgraph = CallGraph()": every run builds
\* into an object of its own.
BuildTarget(cache, objects, key) == Len(objects) + 1

\* The object holds the graph the run built; the other objects are as they were.
StoreGraph(objects, object, callgraph) ==
    [i \in (DOMAIN objects) \cup {object} |->
        IF i = object THEN callgraph ELSE objects[i]]

\* web/app.py line 113.
cache_key(root_path, files) == root_path \o "_" \o ToString(Len(files))

\* web/app.py lines 114-121: the text of every Python file, read again.
FileCacheAfter(cache, files, disk) ==
    LET read == {files[i].path : i \in {j \in 1..Len(files) :
                    files[j].language = "python" /\ files[j].module # NoModule}}
    IN [p \in (DOMAIN cache) \cup read |->
           IF p \in read THEN ReadFile(disk, p) ELSE cache[p]]

\* web/app.py lines 224-228 and 289-293: the first key that starts with root_path.
MatchingKeys(dict, root_path) ==
    {i \in 1..Len(dict) : startswith(dict[i].key, root_path)}

FirstMatchingKey(dict, root_path) ==
    dict[CHOOSE i \in MatchingKeys(dict, root_path) :
            \A j \in MatchingKeys(dict, root_path) : i <= j].key

\* POST /analyze (api.py lines 28-76)
Analyze ==
    /\ Idle
    /\ runs < MaxRuns
    /\ \E root \in RootInputs : \E disk \in Disks(root) :
          run' = IF ~isdir(root)
                 THEN [entry |-> "analyze", root |-> root, disk |-> disk,
                       outcome |-> "error", modules |-> <<>>]
                 ELSE [entry |-> "analyze", root |-> root, disk |-> disk,
                       outcome |-> "ok",
                       modules |-> ModuleNames(
                          analyze_modules(scan_repository(root, disk), disk))]
    /\ runs' = runs + 1
    /\ UNCHANGED <<engineVars, query, file_cache, analysis_cache,
                   callgraph_cache, graphs, latest>>

\* archviz analyze <path> (cli.py lines 15-42)
CmdAnalyze ==
    /\ Idle
    /\ runs < MaxRuns
    /\ \E root \in RootInputs : \E disk \in Disks(root) :
          LET got == cmd_analyze_modules(scan_repository(root, disk), disk)
          IN run' = [entry |-> "cli", root |-> root, disk |-> disk,
                     outcome |-> IF got.raised THEN "raised" ELSE "ok",
                     modules |-> ModuleNames(got.modules)]
    /\ runs' = runs + 1
    /\ UNCHANGED <<engineVars, query, file_cache, analysis_cache,
                   callgraph_cache, graphs, latest>>

\* POST /facts (web/app.py lines 36-143)
GetFacts ==
    /\ Idle
    /\ runs < MaxRuns
    /\ \E root_path \in RootInputs : \E disk \in Disks(root_path) :
          IF ~isdir(root_path)
          THEN /\ run' = [entry |-> "facts", root |-> root_path, disk |-> disk,
                          outcome |-> "error", modules |-> <<>>]
               /\ UNCHANGED <<file_cache, analysis_cache, callgraph_cache,
                              graphs, latest>>
          ELSE LET files == scan_repository(root_path, disk)
                   modules == get_facts_modules(files, disk)
                   key == cache_key(root_path, files)
                   contents == FileCacheAfter(file_cache, files, disk)
                   callgraph == build_module_callgraph(modules, contents)
                   object == BuildTarget(callgraph_cache, graphs, key)
               IN /\ file_cache' = contents
                  /\ analysis_cache' =
                        DictSet(analysis_cache, key,
                                [files |-> files, modules |-> modules])
                  /\ graphs' = StoreGraph(graphs, object, callgraph)
                  /\ callgraph_cache' = DictSet(callgraph_cache, key, object)
                  /\ latest' = [latest EXCEPT ![root_path] =
                                   [analysed |-> TRUE, callgraph |-> callgraph]]
                  /\ run' = [entry |-> "facts", root |-> root_path, disk |-> disk,
                             outcome |-> "ok", modules |-> ModuleNames(modules)]
    /\ runs' = runs + 1
    /\ UNCHANGED <<engineVars, query>>

\* GET /callgraph (web/app.py lines 220-282)
GetCallgraph ==
    /\ Idle
    /\ \E root_path \in Roots, symbol \in {"a", "b"} :
          query' =
             IF MatchingKeys(callgraph_cache, root_path) = {}
             THEN [op |-> "callgraph", root |-> root_path, status |-> 404]
             ELSE LET key == FirstMatchingKey(callgraph_cache, root_path)
                      callgraph == graphs[DictGet(callgraph_cache, key)]
                  IN [op |-> "callgraph", root |-> root_path, status |-> 200,
                      cache_key |-> key, symbol |-> symbol,
                      result |-> get_reachable_from(callgraph, symbol,
                                                    DefaultMaxDepth)]
    /\ UNCHANGED <<engineVars, run, webVars>>

\* GET /callgraph/paths (web/app.py lines 285-307)
GetCallgraphPaths ==
    /\ Idle
    /\ \E root_path \in Roots, end \in {"a", "b"} :
          query' =
             IF MatchingKeys(callgraph_cache, root_path) = {}
             THEN [op |-> "callgraph_paths", root |-> root_path, status |-> 404]
             ELSE LET key == FirstMatchingKey(callgraph_cache, root_path)
                      callgraph == graphs[DictGet(callgraph_cache, key)]
                  IN [op |-> "callgraph_paths", root |-> root_path,
                      status |-> 200, cache_key |-> key,
                      start |-> "a", end |-> end,
                      result |-> get_paths_between(callgraph, "a", end,
                                                   DefaultMaxDepth)]
    /\ UNCHANGED <<engineVars, run, webVars>>

NextWeb ==
    Analyze \/ CmdAnalyze \/ GetFacts \/ GetCallgraph \/ GetCallgraphPaths \/ Return

SpecWeb == Init /\ [][NextWeb]_vars

-----------------------------------------------------------------------------
(* parse_python_module on the syntax tree of a text (ast_parse.py) *)

\* The characters of the names below, in code point order.
Alphabet == "._abcdefghijklmnopqrstuvwxyz"

Rank(char) == CHOOSE i \in 1..Len(Alphabet) : SubSeq(Alphabet, i, i) = char

\* str.__lt__ from character i on.
RECURSIVE LexLessFrom(_, _, _)
LexLessFrom(s, t, i) ==
    IF i > Len(s) THEN i <= Len(t)
    ELSE IF i > Len(t) THEN FALSE
    ELSE LET a == Rank(SubSeq(s, i, i))
             b == Rank(SubSeq(t, i, i))
         IN IF a # b THEN a < b ELSE LexLessFrom(s, t, i + 1)

LexLess(s, t) == LexLessFrom(s, t, 1)

\* set(names)
set(names) == {names[i] : i \in 1..Len(names)}

\* sorted(S) of a set of strings
RECURSIVE sorted(_)
sorted(S) ==
    IF S = {} THEN <<>>
    ELSE LET least == CHOOSE x \in S : \A y \in S \ {x} : LexLess(x, y)
         IN <<least>> \o sorted(S \ {least})

\* Nodes of the syntax tree ast.parse returns.
Import(names) == [kind |-> "Import", names |-> names]

ImportFrom(module, names) ==
    [kind |-> "ImportFrom", module |-> module, names |-> names]

ClassDef(name, body) == [kind |-> "ClassDef", name |-> name, body |-> body]

FunctionDef(name, body) == [kind |-> "FunctionDef", name |-> name, body |-> body]

AsyncFunctionDef(name, body) ==
    [kind |-> "AsyncFunctionDef", name |-> name, body |-> body]

Try(body) == [kind |-> "Try", body |-> body]

Pass == [kind |-> "Pass"]

\* Top-level statements of the texts parse_python_module is given.
ParseStmts ==
    {Import(<<"os">>),
     Import(<<"sys", "os">>),
     Import(<<"os.path">>),
     ImportFrom("os", <<"path">>),
     ImportFrom("sys", <<"path", "argv">>),
     Try(<<Import(<<"json">>)>>),
     ClassDef("A", <<FunctionDef("m", <<Pass>>)>>),
     ClassDef("B", <<Pass>>),
     FunctionDef("f", <<Pass>>),
     FunctionDef("g", <<Import(<<"sys">>)>>),
     AsyncFunctionDef("h", <<Pass>>)}

ParseTrees == UNION {[1..l -> ParseStmts] : l \in 0..MaxStmts}

\* Lines 57-64: the names one import statement adds.
ImportedNames(node) ==
    IF node.kind = "Import"
    THEN node.names
    ELSE [i \in 1..Len(node.names) |->
             IF node.module # ""
             THEN node.module \o "." \o node.names[i]
             ELSE node.names[i]]

\* Lines 55-92, the loop over tree.body, as its three lists.
RECURSIVE CollectImports(_)
CollectImports(body) ==
    IF body = <<>> THEN <<>>
    ELSE LET node == Head(body)
         IN (IF node.kind \in {"Import", "ImportFrom"}
             THEN ImportedNames(node)
             ELSE <<>>) \o CollectImports(Tail(body))

\* Lines 67-76: the methods of a class are the FunctionDef nodes of its body.
CollectMethods(body) ==
    LET defs == SelectSeq(body, LAMBDA sub : sub.kind = "FunctionDef")
    IN [i \in 1..Len(defs) |-> defs[i].name]

CollectClasses(body) ==
    LET defs == SelectSeq(body, LAMBDA node : node.kind = "ClassDef")
    IN [i \in 1..Len(defs) |->
           [name |-> defs[i].name, methods |-> CollectMethods(defs[i].body)]]

CollectFunctions(body) ==
    LET defs == SelectSeq(body, LAMBDA node : node.kind = "FunctionDef")
    IN [i \in 1..Len(defs) |-> defs[i].name]

\* parse_python_module, given the tree of a text that parses.
ModuleFacts(module_name, path, tree) ==
    [module |-> module_name,
     path |-> path,
     imports |-> sorted(set(CollectImports(tree))),
     classes |-> CollectClasses(tree),
     functions |-> CollectFunctions(tree)]

-----------------------------------------------------------------------------
(* extract_call_relations on the syntax tree of a text (callgraph.py) *)

Expr(value) == [kind |-> "Expr", value |-> value]

Call(func) == [kind |-> "Call", func |-> func]

Module(body) == [kind |-> "Module", body |-> body]

HasBody(node) ==
    node.kind \in {"Module", "ClassDef", "FunctionDef", "AsyncFunctionDef", "Try"}

\* ast.parse gives every node its lines: here the text holds one statement per
\* line, a definition being its header line followed by its body.
RECURSIVE PlaceNode(_, _)
RECURSIVE PlaceBody(_, _)
PlaceNode(node, line) ==
    IF HasBody(node)
    THEN LET inner == PlaceBody(node.body, line + 1)
         IN [kind |-> node.kind, name |-> node.name, body |-> inner.body,
             lineno |-> line, end_lineno |-> inner.next - 1]
    ELSE IF node.kind = "Expr"
    THEN [kind |-> "Expr",
          value |-> [kind |-> "Call", func |-> node.value.func, lineno |-> line],
          lineno |-> line, end_lineno |-> line]
    ELSE [kind |-> node.kind, lineno |-> line, end_lineno |-> line]

PlaceBody(body, line) ==
    IF body = <<>> THEN [body |-> <<>>, next |-> line]
    ELSE LET first == PlaceNode(Head(body), line)
             rest == PlaceBody(Tail(body), first.end_lineno + 1)
         IN [body |-> <<first>> \o rest.body, next |-> rest.next]

\* Line 95: tree = ast.parse(source_code)
parse(body) == Module(PlaceBody(body, 1).body)

iter_child_nodes(node) ==
    IF HasBody(node) THEN node.body
    ELSE IF node.kind = "Expr" THEN <<node.value>>
    ELSE <<>>

\* ast.walk: the nodes breadth first, from a queue that starts with the tree.
RECURSIVE WalkFrom(_)
WalkFrom(todo) ==
    IF todo = <<>> THEN <<>>
    ELSE <<Head(todo)>> \o WalkFrom(Tail(todo) \o iter_child_nodes(Head(todo)))

walk(tree) == WalkFrom(<<tree>>)

\* Lines 99-126: the nodes the first pass adds for one node of the walk.
MethodNodes(class) ==
    LET methods == SelectSeq(class.body, LAMBDA method : method.kind = "FunctionDef")
    IN [i \in 1..Len(methods) |-> class.name \o "." \o methods[i].name]

FirstPassNodes(node) ==
    IF node.kind = "FunctionDef" THEN <<node.name>>
    ELSE IF node.kind = "ClassDef" THEN <<node.name>> \o MethodNodes(node)
    ELSE <<>>

RECURSIVE FirstPassNames(_)
FirstPassNames(nodes) ==
    IF nodes = <<>> THEN <<>>
    ELSE FirstPassNodes(Head(nodes)) \o FirstPassNames(Tail(nodes))

\* Lines 141-147: the first FunctionDef of the walk whose lines hold the call.
Encloses(parent, node) ==
    /\ parent.kind = "FunctionDef"
    /\ parent.lineno <= node.lineno
    /\ node.lineno <= parent.end_lineno

current_function(node, nodes) ==
    LET parents == {i \in 1..Len(nodes) : Encloses(nodes[i], node)}
    IN IF parents = {} THEN NoFunc
       ELSE nodes[CHOOSE i \in parents : \A j \in parents : i <= j].name

\* Lines 129-147: the call sites of the walk, each with its caller and callee.
CallSites(nodes) ==
    LET calls == SelectSeq(nodes, LAMBDA node : node.kind = "Call")
    IN [i \in 1..Len(calls) |->
           [caller |-> current_function(calls[i], nodes), callee |-> calls[i].func]]

\* What the two passes read of a tree.
UnitOf(tree) ==
    [ok |-> TRUE, decls |-> FirstPassNames(walk(tree)), sites |-> CallSites(walk(tree))]

\* Top-level statements of the texts extract_call_relations is given.
CallStmts ==
    {FunctionDef("f", <<Expr(Call("g"))>>),
     FunctionDef("g", <<Pass>>),
     FunctionDef("f", <<FunctionDef("inner", <<Expr(Call("g"))>>),
                        Expr(Call("inner"))>>),
     FunctionDef("g", <<Expr(Call("unknown_fn"))>>),
     FunctionDef("m", <<Expr(Call("f"))>>),
     ClassDef("A", <<FunctionDef("m", <<Expr(Call("g"))>>)>>),
     ClassDef("A", <<FunctionDef("m", <<Expr(Call("m"))>>),
                     FunctionDef("n", <<Expr(Call("A"))>>)>>),
     AsyncFunctionDef("h", <<Expr(Call("g"))>>),
     Expr(Call("f"))}

CallTrees == UNION {[1..l -> CallStmts] : l \in 0..MaxStmts}

\* extract_call_relations is called on a text.
ExtractCalls ==
    /\ Idle
    /\ \E body \in CallTrees :
          run' = [entry |-> "extract", tree |-> parse(body),
                  fragment |-> extract_call_relations("m", UnitOf(parse(body)))]
    /\ UNCHANGED <<engineVars, query, webVars>>

\* parse_python_module is called on a text.
ParseModule ==
    /\ Idle
    /\ \E tree \in ParseTrees :
          run' = [entry |-> "parse", tree |-> tree,
                  facts |-> ModuleFacts("m", "m.py", tree)]
    /\ UNCHANGED <<engineVars, query, webVars>>

NextText == ParseModule \/ ExtractCalls \/ Return

SpecText == Init /\ [][NextText]_vars

-----------------------------------------------------------------------------
(* Reference notions the properties are stated with *)

Nodes == DOMAIN global_callgraph.nodes

Callees(n) == {global_callgraph.nodes[n].calls[i] :
                  i \in 1..Len(global_callgraph.nodes[n].calls)}

\* Nodes with a call path of at most k steps from start.
RECURSIVE Within(_, _)
Within(start, k) ==
    IF k = 0 THEN {start}
    ELSE LET prev == Within(start, k - 1)
         IN prev \cup UNION {Callees(n) : n \in prev}

\* Shortest call-path distance from start to n, for n reachable from start.
Distance(start, n) ==
    CHOOSE k \in 0..Cardinality(Nodes) :
        /\ n \in Within(start, k)
        /\ \A j \in 0..(k - 1) : n \notin Within(start, j)

Count(s, x) == Cardinality({i \in 1..Len(s) : s[i] = x})

IsEdge(caller, callee) == InSeq(<<caller, callee>>, global_callgraph.edges)

NoRepeat(path) == \A i, j \in 1..Len(path) : path[i] = path[j] => i = j

\* Simple paths over the call lists from start to end with at most k edges.
SimplePaths(start, end, k) ==
    {p \in UNION {[1..l -> Nodes] : l \in 1..Cardinality(Nodes)} :
        /\ Len(p) - 1 <= k
        /\ p[1] = start
        /\ p[Len(p)] = end
        /\ NoRepeat(p)
        /\ \A i \in 1..(Len(p) - 1) : p[i + 1] \in Callees(p[i])}

-----------------------------------------------------------------------------
(* C1: for a known start and max_depth >= 0, with fewer than 100 nodes
   discovered, reachable returns exactly the nodes whose shortest call-path
   distance from start is at most max_depth, each mapped to that distance;
   reachable(n, 0) is {n: 0}. *)
C1_ReachableIsShortestDistance ==
    (/\ query.op = "reachable"
     /\ query.start \in Nodes
     /\ query.max_depth >= 0
     /\ Cardinality(DOMAIN query.result) < NodeCap)
    => /\ DOMAIN query.result = Within(query.start, query.max_depth)
       /\ \A n \in DOMAIN query.result : query.result[n] = Distance(query.start, n)
       /\ query.max_depth = 0 =>
             query.result = [n \in {query.start} |-> 0]

\* A node two calls away that is also called directly: the shorter path wins.
C1_Witness ==
    /\ query.op = "reachable"
    /\ query.max_depth >= 2
    /\ \E n, m \in DOMAIN query.result :
          /\ query.result[m] = 1
          /\ query.result[n] = 1
          /\ n \in Callees(m)
          /\ n # m

(* C2: pathsBetween(start, end, maxDepth) returns every simple path from start
   to end that has at most maxDepth edges, a path with exactly maxDepth edges
   included. *)
C2_EveryPathWithinMaxDepthEdges ==
    (/\ query.op = "paths"
     /\ query.start \in Nodes
     /\ query.end \in Nodes)
    => \A p \in SimplePaths(query.start, query.end, query.max_depth) :
          InSeq(p, query.result)

(* C3: every path returned by pathsBetween(a, b, d) has at most d edges,
   starts with a, ends with b, follows an existing edge at each step and
   repeats no node. *)
C3_ReturnedPathsAreBoundedSimplePaths ==
    query.op = "paths" =>
        \A k \in 1..Len(query.result) :
            LET p == query.result[k]
            IN /\ Len(p) - 1 <= query.max_depth
               /\ p[1] = query.start
               /\ p[Len(p)] = query.end
               /\ \A i \in 1..(Len(p) - 1) :
                     /\ IsEdge(p[i], p[i + 1])
                     /\ p[i + 1] \in Callees(p[i])
               /\ NoRepeat(p)

C3_Witness ==
    /\ query.op = "paths"
    /\ \E k \in 1..Len(query.result) : Len(query.result[k]) = 3
    /\ \E k \in 1..Len(query.result) : Len(query.result[k]) = 2

(* C4: after merging fragments, every node's calls list holds callee c as
   often as (n, c) occurs in the merged edge list, and its called_by list
   holds caller k as often as (k, n) occurs there. *)
C4_CallListsMatchEdgeList ==
    \A n \in Nodes, m \in Names :
        /\ Count(global_callgraph.nodes[n].calls, m)
              = Count(global_callgraph.edges, <<n, m>>)
        /\ Count(global_callgraph.nodes[n].called_by, m)
              = Count(global_callgraph.edges, <<m, n>>)

(* C5: reachable(n, d) is contained in reachable(n, d + 1), with the same
   depths, while the cap of 100 nodes is not reached; and running the same
   query again on the graph gives the same mapping. *)
C5_ReachableMonotonicAndRepeatable ==
    query.op = "reachable" =>
        LET deeper == get_reachable_from(global_callgraph, query.start,
                                         query.max_depth + 1)
        IN /\ Cardinality(DOMAIN deeper) < NodeCap =>
                 /\ DOMAIN query.result \subseteq DOMAIN deeper
                 /\ \A n \in DOMAIN query.result : deeper[n] = query.result[n]
           /\ get_reachable_from(global_callgraph, query.start, query.max_depth)
                 = query.result

C5_Witness ==
    /\ query.op = "reachable"
    /\ query.result # EmptyVisited
    /\ DOMAIN query.result
          # DOMAIN get_reachable_from(global_callgraph, query.start,
                                      query.max_depth + 1)

(* C6: reachable enforces the cap of 100 discovered nodes: the mapping it
   returns never holds more than 100 nodes, whatever max_depth is. *)
C6_ReachableHoldsAtMostCapNodes ==
    query.op = "reachable" => Cardinality(DOMAIN query.result) <= NodeCap

\* The cap cuts the result: more nodes are one call away than are returned.
C6_Witness ==
    /\ query.op = "reachable"
    /\ Cardinality(DOMAIN query.result) = NodeCap
    /\ query.start \in Nodes
    /\ query.max_depth >= 1
    /\ Cardinality(Callees(query.start) \cup {query.start}) > NodeCap

(* C7: a query that names an unknown node returns an empty result: reachable
   an empty mapping when start is no node, pathsBetween an empty list when
   start or end is no node. *)
C7_UnknownNodeGivesEmptyResult ==
    /\ (query.op = "reachable" /\ query.start \notin Nodes)
          => query.result = EmptyVisited
    /\ (query.op = "paths" /\ (query.start \notin Nodes \/ query.end \notin Nodes))
          => query.result = <<>>

C7_Witness ==
    /\ query.op = "paths"
    /\ query.start \notin Nodes
    /\ query.end = query.start
    /\ query.max_depth >= 1
    /\ Nodes # {}

(* C8: in every aggregation entry point (POST /analyze, POST /facts, the
   analyze command), a unit whose text fails to parse is left out and the run
   goes on: the run ends normally and its result holds every unit that
   parses. *)
ParsingModules(root, disk) ==
    LET good == SelectSeq(disk, LAMBDA e : e.text.ok)
    IN [i \in 1..Len(good) |-> to_module_name(root, good[i].path)]

C8_ParseFailureSkipsOnlyThatUnit ==
    (run.entry \in {"analyze", "facts", "cli"} /\ isdir(run.root))
    => /\ run.outcome = "ok"
       /\ run.modules = ParsingModules(run.root, run.disk)

(* C9: a call-graph query for a root that has been analysed is answered from
   the call graph of the most recent analysis of that root. *)
C9_QueryServedFromLatestAnalysis ==
    (/\ query.op \in {"callgraph", "callgraph_paths"}
     /\ latest[query.root].analysed)
    => /\ query.status = 200
       /\ graphs[DictGet(callgraph_cache, query.cache_key)]
             = latest[query.root].callgraph

(* C12: for all valid source text, every declared import name is in the
   unit's import list exactly once (a whole-module import under the module
   name, a from-import under <module>.<member>), the list is sorted
   lexicographically without duplicates, and the top-level classes and
   functions of the text are in the unit's class and function lists. *)
\* The import statements of the module level, those under a module-level try
\* included.
RECURSIVE ModuleLevelImports(_)
ModuleLevelImports(body) ==
    UNION {IF body[i].kind = "Import"
           THEN set(body[i].names)
           ELSE IF body[i].kind = "ImportFrom"
           THEN {body[i].module \o "." \o body[i].names[j] :
                    j \in 1..Len(body[i].names)}
           ELSE IF body[i].kind = "Try"
           THEN ModuleLevelImports(body[i].body)
           ELSE {} : i \in 1..Len(body)}

TopLevelNames(body, kinds) ==
    {body[i].name : i \in {j \in 1..Len(body) : body[j].kind \in kinds}}

C12_FactsHoldEveryImportClassAndFunction ==
    run.entry = "parse" =>
        LET facts == run.facts
        IN /\ \A name \in ModuleLevelImports(run.tree) :
                 Count(facts.imports, name) = 1
           /\ \A i, j \in 1..Len(facts.imports) :
                 i < j => LexLess(facts.imports[i], facts.imports[j])
           /\ TopLevelNames(run.tree, {"ClassDef"})
                 \subseteq {facts.classes[i].name : i \in 1..Len(facts.classes)}
           /\ TopLevelNames(run.tree, {"FunctionDef", "AsyncFunctionDef"})
                 \subseteq set(facts.functions)

(* C13: each call site is attributed to exactly one enclosing function or
   method declaration, the one with the tightest span among those whose lines
   hold the call site; the caller of the edge is the qualified name of that
   declaration (ClassName.methodName for a method), and a call site outside
   every declaration is dropped. *)
\* The function and method declarations of a tree: its top-level functions
\* and the methods of its top-level classes, under their qualified names.
DeclaredFunctions(tree) ==
    {[name |-> tree.body[i].name, lineno |-> tree.body[i].lineno,
      end_lineno |-> tree.body[i].end_lineno] :
        i \in {j \in 1..Len(tree.body) : tree.body[j].kind = "FunctionDef"}}

DeclaredMethods(tree) ==
    UNION {{[name |-> tree.body[i].name \o "." \o tree.body[i].body[k].name,
             lineno |-> tree.body[i].body[k].lineno,
             end_lineno |-> tree.body[i].body[k].end_lineno] :
               k \in {l \in 1..Len(tree.body[i].body) :
                         tree.body[i].body[l].kind = "FunctionDef"}} :
           i \in {j \in 1..Len(tree.body) : tree.body[j].kind = "ClassDef"}}

Holding(tree, line) ==
    {d \in DeclaredFunctions(tree) \cup DeclaredMethods(tree) :
        d.lineno <= line /\ line <= d.end_lineno}

Tightest(tree, line) ==
    CHOOSE d \in Holding(tree, line) :
        \A e \in Holding(tree, line) :
            d.end_lineno - d.lineno <= e.end_lineno - e.lineno

\* The edges the call sites of the tree are to give, in the order of the walk.
AttributedEdges(tree, known) ==
    LET calls == SelectSeq(walk(tree), LAMBDA node :
                    /\ node.kind = "Call"
                    /\ Holding(tree, node.lineno) # {}
                    /\ node.func \in known)
    IN [i \in 1..Len(calls) |->
           <<Tightest(tree, calls[i].lineno).name, calls[i].func>>]

C13_CallSiteAttributedToTightestDeclaration ==
    run.entry = "extract" =>
        LET expected == AttributedEdges(run.tree, DOMAIN run.fragment.nodes)
        IN \A edge \in set(expected) \cup set(run.fragment.edges) :
              Count(run.fragment.edges, edge) = Count(expected, edge)

(* C14: the node set of a unit's fragment holds exactly one node per
   declaration of the unit (top-level functions, classes, and class-body
   methods named ClassName.methodName): a method gives no second node under
   its bare name, and a function nested inside a function gives no node. *)
C14_OneNodePerDeclaration ==
    run.entry = "extract" =>
        DOMAIN run.fragment.nodes
           = TopLevelNames(run.tree.body, {"FunctionDef", "ClassDef"})
                \cup {d.name : d \in DeclaredMethods(run.tree)}

(* C11: once the call graph of an analysis run has been built, no later
   operation (a reachability query, a path query, another analysis run)
   changes its node set, its edge list or a node's calls/called_by lists. *)
C11_BuiltGraphIsNeverChanged ==
    [][\A object \in DOMAIN graphs :
          /\ object \in DOMAIN graphs'
          /\ graphs'[object] = graphs[object]]_vars

\* A second run of the same root and file count has replaced the cache entry
\* of the first with a different graph, and a query has been answered.
C11_Witness ==
    /\ Len(graphs) = 2
    /\ Len(callgraph_cache) = 1
    /\ graphs[1] # graphs[2]
    /\ graphs[1].edges # <<>>
    /\ query.op = "callgraph_paths"
    /\ query.status = 200
    /\ query.result # <<>>

(* C15: in every graph reached by calls of add_node and add_edge and by
   merges of fragments, every edge of the edge list has its caller and its
   callee among the nodes; a call site whose callee is no known node adds no
   edge: def a(): unknown_fn() gives the node a and no edge. *)
EdgesJoinNodes(g) ==
    \A i \in 1..Len(g.edges) :
        /\ g.edges[i][1] \in DOMAIN g.nodes
        /\ g.edges[i][2] \in DOMAIN g.nodes

C15_EveryEdgeJoinsKnownNodes ==
    /\ EdgesJoinNodes(global_callgraph)
    /\ \A i \in 1..Len(fragments) : EdgesJoinNodes(fragments[i])
    /\ LET tree == parse(<<FunctionDef("a", <<Expr(Call("unknown_fn"))>>)>>)
           fragment == extract_call_relations("m", UnitOf(tree))
       IN DOMAIN fragment.nodes = {"a"} /\ fragment.edges = <<>>

\* add_edge has just been called with a callee that is no node, on a graph that
\* holds edges and the fragment of a unit with fewer edges than call sites.
C15_Witness ==
    /\ query.op = "add_edge"
    /\ query.caller \in Nodes
    /\ query.callee \notin Nodes
    /\ global_callgraph.edges # <<>>
    /\ Len(fragments) >= 1
    /\ fragments[1].edges = <<>>

(* C16: on every finite graph, with cycles, self-calls and duplicate edges,
   and for every max_depth, get_reachable_from and get_paths_between
   terminate: a query whose loop is running comes to its return. *)
C16_QueriesTerminate ==
    Running ~> (query.op \in {"reachable", "paths"})

\* A path query is in its loop on a graph with a cycle through two nodes, a
\* self-call and a call list that holds a callee twice.
C16_Witness ==
    /\ query.op = "paths_loop"
    /\ Len(query.locals.queue) >= 2
    /\ \E n, m \in Nodes :
          /\ n # m
          /\ m \in Callees(n)
          /\ n \in Callees(m)
          /\ Count(global_callgraph.nodes[n].calls, m) >= 2
    /\ \E n \in Nodes : n \in Callees(n)

(* C10: merging two fragments whose node sets are disjoint gives a graph
   whose edge count is the sum of the two fragments' edge counts. *)
C10_DisjointMergeAddsEdgeCounts ==
    (/\ Len(fragments) = 2
     /\ DOMAIN fragments[1].nodes \cap DOMAIN fragments[2].nodes = {})
    => Len(global_callgraph.edges)
          = Len(fragments[1].edges) + Len(fragments[2].edges)

C10_Witness ==
    /\ Len(fragments) = 2
    /\ DOMAIN fragments[1].nodes \cap DOMAIN fragments[2].nodes = {}
    /\ Len(fragments[1].edges) = 2
    /\ fragments[1].edges[1] = fragments[1].edges[2]
    /\ Len(fragments[2].edges) >= 1

=============================================================================
